---- MODULE Spec2Model ----
(***************************************************************************)
(* The AI gateway of zenai-backend (services/ai.service.js) talking over   *)
(* HTTP to an AI engine, of which zenai-ai-engine/src/index.js is the one  *)
(* shipped in this repository.                                             *)
(*                                                                         *)
(* Text is a sequence of tokens, so that substring, template literals and  *)
(* emptiness tests are computed rather than assumed.  An absent field of a *)
(* JavaScript object is an absent field of the record.                     *)
(***************************************************************************)
EXTENDS Integers, Sequences, FiniteSets, TLC

\* ---------------------------------------------------------------- bounds
MaxMessages == 2
MaxElapsed == 1
MaxTasks == 2
MaxDescription == 102
MaxProjectTasks == 40

\* ------------------------------------------------------------- JS helpers
undefined == "undefined"

noValue == [jsUndefined |-> TRUE]

Has(obj, field) == field \in DOMAIN obj

Get(obj, field) == IF Has(obj, field) THEN obj[field] ELSE undefined

Falsy(text) == text = <<>>

Min(a, b) == IF a < b THEN a ELSE b

substring(text, from, to) == SubSeq(text, from + 1, Min(to, Len(text)))

Spread(a, b) == [k \in DOMAIN a \cup DOMAIN b |-> IF k \in DOMAIN b THEN b[k] ELSE a[k]]

RECURSIVE Pow2(_)
Pow2(n) == IF n = 0 THEN 1 ELSE 2 * Pow2(n - 1)

RECURSIVE BitLen(_)
BitLen(n) == IF n = 0 THEN 0 ELSE 1 + BitLen(n \div 2)

\* ------------------------------------------------- IEEE 754 double values
\* A double is (hi * 2^36 + mid * 2^18 + lo) * 2^(-e); the three limbs hold
\* the 53-bit significand.  Results are rounded to nearest, ties to even.
Limb == Pow2(18)

DoubleAdd(x, n) ==
  LET lo == x.lo + n
      mid == x.mid + (lo \div Limb)
  IN [hi |-> x.hi + (mid \div Limb), mid |-> mid % Limb, lo |-> lo % Limb, e |-> x.e]

RECURSIVE Normalise(_, _)
Normalise(c, t) == IF c >= t THEN 0 ELSE 1 + Normalise(2 * c, t)

\* c / t for integers 0 < c <= t
DoubleDiv(c, t) ==
  LET s == Normalise(c, t)
      n == c * Pow2(s)
      r0 == n % t
      r1 == (r0 * Pow2(16)) % t
      r2 == (r1 * Limb) % t
      r3 == (r2 * Limb) % t
      q == [hi |-> ((n \div t) * Pow2(16)) + ((r0 * Pow2(16)) \div t),
            mid |-> (r1 * Limb) \div t,
            lo |-> (r2 * Limb) \div t,
            e |-> s + 52]
      up == 2 * r3 > t \/ (2 * r3 = t /\ q.lo % 2 = 1)
  IN IF up THEN DoubleAdd(q, 1) ELSE q

\* x * 100 for a double x > 0
DoubleTimes100(x) ==
  LET lo == x.lo * 100
      mid == (x.mid * 100) + (lo \div Limb)
      hi == (x.hi * 100) + (mid \div Limb)
      p == [hi |-> hi, mid |-> mid % Limb, lo |-> lo % Limb, e |-> x.e]
      d == BitLen(hi) - 17
      low == p.lo % Pow2(d)
      half == Pow2(d - 1)
      up == low > half \/ (low = half /\ (p.lo \div Pow2(d)) % 2 = 1)
      down == [p EXCEPT !.lo = p.lo - low]
  IN IF up THEN DoubleAdd(down, Pow2(d)) ELSE down

\* Math.round of a double x >= 0: the integer nearest to x, halves upward
MathRound(x) ==
  LET k == x.e - 36
  IN (x.hi \div Pow2(k)) + ((x.hi \div Pow2(k - 1)) % 2)

\* Math.round((completedTasks / totalTasks) * 100), totalTasks > 0
RoundedPercent(completedTasks, totalTasks) ==
  IF completedTasks = 0 THEN 0
  ELSE MathRound(DoubleTimes100(DoubleDiv(completedTasks, totalTasks)))

\* ------------------------------------------------------------------ inputs
Users == {"u1"}

Messages == {<<>>, <<"hi">>}

Contexts == {[projectId |-> "p1"],
             [type |-> "task-analysis", projectId |-> "p1", taskId |-> "t1"]}

Statuses == {"todo", "done"}

Task(i, status) ==
  [_id |-> i, title |-> <<"task">>, description |-> <<"details">>,
   priority |-> "high", status |-> status, dueDate |-> "2025-01-01"]

TaskLists ==
  UNION {{[i \in 1..n |-> Task(i, s[i])] : s \in [1..n -> Statuses]} : n \in 0..MaxTasks}

\* total tasks of which the first completed (or the last completed) are done
ProjectTasks(total, completed, fromEnd) ==
  [i \in 1..total |->
     Task(i, IF (IF fromEnd THEN i > total - completed ELSE i <= completed)
             THEN "done" ELSE "todo")]

ProjectTaskLists ==
  {ProjectTasks(t, c, e) :
     t \in 0..MaxProjectTasks, c \in 0..MaxProjectTasks, e \in BOOLEAN}

Alphabet == <<"a", "b", "c">>

Description(n) == [i \in 1..n |-> Alphabet[(i % 3) + 1]]

Descriptions == {Description(n) : n \in 0..2}

LongDescriptions == {Description(n) : n \in 0..MaxDescription}

ProjectData ==
  [name |-> <<"Apollo">>, status |-> "active", progress |-> 40, deadline |-> "2025-06-01"]

FallbackOps ==
  {"chat", "createTaskFromDescription", "analyzeTask", "analyzeProject",
   "suggestTaskBreakdown", "estimateEffort"}

NoFallbackOps == {"transcribeAudio", "indexDocument", "searchDocuments"}

Ops == FallbackOps \cup NoFallbackOps \cup {"isAvailable"}

Args(op) ==
  CASE op = "chat" ->
         [userId : Users, message : Messages, context : Contexts]
    [] op = "createTaskFromDescription" ->
         [description : Descriptions, projectId : {"p1"}, userId : {"u1"}]
    [] op = "analyzeTask" ->
         [task : {Task(1, "todo")},
          projectContext : {[name |-> "Apollo"],
                            [name |-> "Apollo", type |-> "project-analysis"]}]
    [] op = "analyzeProject" -> [projectData : {ProjectData}, tasks : TaskLists]
    [] op = "transcribeAudio" ->
         [audioFilePath : {"meeting.wav"},
          meetingContext : {[title |-> <<"standup">>], [date |-> "2025-01-01"]}]
    [] op = "indexDocument" ->
         [content : {<<"notes">>}, metadata : {[source |-> "wiki"]}]
    [] op = "searchDocuments" ->
         [query : {<<"notes">>}, options : {[limit |-> 3]}]
    [] op = "suggestTaskBreakdown" ->
         [epicTask : {[title |-> <<"Epic">>, description |-> <<"details">>]}]
    [] op = "estimateEffort" -> [tasks : TaskLists]
    [] op = "isAvailable" -> [timeout : {3000}]

\* a few inputs of each method that has a fallback
FewArgs(op) ==
  CASE op = "chat" ->
         [userId : Users, message : Messages, context : {[projectId |-> "p1"]}]
    [] op = "createTaskFromDescription" ->
         [description : {Description(0), Description(2)}, projectId : {"p1"}, userId : {"u1"}]
    [] op = "analyzeTask" ->
         [task : {Task(1, "todo")}, projectContext : {[name |-> "Apollo"]}]
    [] op = "analyzeProject" ->
         [projectData : {ProjectData}, tasks : {<<>>, <<Task(1, "done"), Task(2, "todo")>>}]
    [] op = "suggestTaskBreakdown" ->
         [epicTask : {[title |-> <<"Epic">>, description |-> <<"details">>]}]
    [] op = "estimateEffort" -> [tasks : {<<>>, <<Task(1, "done"), Task(2, "todo")>>}]

\* chat calls made at the same time, for the same user or for different ones
ChatUsers == {"u1", "u2"}

ChatArgs ==
  [userId : ChatUsers, message : {<<"hi">>, <<"plan">>}, context : {[projectId |-> "p1"]}]

\* inputs of the fallback computations, over their whole ranges
LongArgs(op) ==
  CASE op = "createTaskFromDescription" ->
         [description : LongDescriptions, projectId : {"p1"}, userId : {"u1"}]
    [] op = "analyzeProject" -> [projectData : {ProjectData}, tasks : ProjectTaskLists]

\* ------------------------------------------------- zenai-ai-engine/index.js
Reply(status, body) == [status |-> status, body |-> body]

\* MockOrchestrator.processRequest; now is the engine's clock reading
processRequest(message, context, now) ==
  IF Get(context, "type") = "task-analysis" THEN
    [response |-> <<"Task analysis for: \"">> \o message \o <<"\"">>,
     analysis |-> [complexityScore |-> 5,
                   estimatedHours |-> 8,
                   skillsRequired |-> <<"JavaScript", "Node.js">>,
                   recommendations |-> <<"Break down into smaller tasks", "Add unit tests">>]]
  ELSE IF Get(context, "type") = "task-creation" THEN
    [response |-> <<"Task created successfully">>,
     task |-> [title |-> substring(message, 0, 50),
               description |-> message,
               priority |-> "medium",
               estimatedTime |-> 8,
               tags |-> <<"ai-generated">>]]
  ELSE IF Get(context, "type") = "project-analysis" THEN
    [response |-> <<"Project analysis completed">>,
     health |-> [score |-> 75,
                 status |-> "healthy",
                 insights |-> <<"Project on track", "Good velocity">>,
                 recommendations |-> <<"Continue current pace">>]]
  ELSE
    [response |-> <<"I received your message: \"">> \o message
                  \o <<"\". AI engine is running in mock mode. Connect OpenAI for full functionality.">>,
     metadata |-> [timestamp |-> now, mode |-> "mock"]]

engineHealth ==
  Reply(200, [status |-> "healthy", service |-> "zenai-ai-engine"])

\* faulty variant: the route hands an empty message to the orchestrator
engineChatUnchecked(body, now) ==
  Reply(200, [success |-> TRUE,
              data |-> processRequest(body.message, body.context, now)])

engineChat(body, now) ==
  IF Falsy(body.message)
  THEN Reply(400, [success |-> FALSE, error |-> "Message is required"])
  ELSE Reply(200, [success |-> TRUE,
                   data |-> processRequest(body.message, body.context, now)])

engineAnalyzeTask(body, now) ==
  IF ~Has(body, "task")
  THEN Reply(400, [success |-> FALSE, error |-> "Task data is required"])
  ELSE Reply(200, [success |-> TRUE,
                   data |-> processRequest(<<"Analyze this task: ", ToString(body.task)>>,
                                           Spread([type |-> "task-analysis"], body.projectContext),
                                           now)])

engineCreateTask(body, now) ==
  IF Falsy(body.description)
  THEN Reply(400, [success |-> FALSE, error |-> "Task description is required"])
  ELSE Reply(200, [success |-> TRUE,
                   data |-> processRequest(body.description,
                                           [type |-> "task-creation", projectId |-> body.projectId],
                                           now)])

engineAnalyzeProject(body, now) ==
  IF ~Has(body, "projectData")
  THEN Reply(400, [success |-> FALSE, error |-> "Project data is required"])
  ELSE Reply(200, [success |-> TRUE,
                   data |-> processRequest(
                              <<"Analyze project: ",
                                ToString([projectData |-> body.projectData, tasks |-> body.tasks])>>,
                              [type |-> "project-analysis"], now)])

\* faulty variant: unknown paths answered with status 200
engineNotFoundAsOk == Reply(200, [success |-> FALSE, error |-> "Endpoint not found"])

engineNotFound == Reply(404, [success |-> FALSE, error |-> "Endpoint not found"])

\* the routes of the express app, in registration order
Engine(req, now) ==
  CASE req.method = "GET" /\ req.path = "/health" -> engineHealth
    [] req.method = "POST" /\ req.path = "/api/v1/ai/chat" -> engineChat(req.body, now)
    [] req.method = "POST" /\ req.path = "/api/v1/ai/analyze-task" ->
         engineAnalyzeTask(req.body, now)
    [] req.method = "POST" /\ req.path = "/api/v1/ai/create-task" ->
         engineCreateTask(req.body, now)
    [] req.method = "POST" /\ req.path = "/api/v1/ai/analyze-project" ->
         engineAnalyzeProject(req.body, now)
    [] OTHER -> engineNotFound

\* --------------------------------------------------------------- upstream
\* What answers at AI_ENGINE_URL: this repository's engine, an engine that
\* serves every endpoint of the HTTP contract, an engine that reports itself
\* unhealthy, something that answers 200 with a body that is no envelope, an
\* engine that does not answer within the timeout, or nothing at all.
Modes == {"engine", "complete", "unhealthy", "garbled", "slow", "down"}

\* the endpoints this repository's engine does not serve, answered as the HTTP
\* contract describes them
CompleteEngine(req, now) ==
  CASE req.path = "/api/v1/ai/transcribe" ->
         Reply(200, [success |-> TRUE,
                     data |-> [transcript |-> <<"hello everyone">>, summary |-> <<"standup">>]])
    [] req.path = "/api/v1/ai/index-document" ->
         Reply(200, [success |-> TRUE, data |-> [success |-> TRUE, documentId |-> "d1"]])
    [] req.path = "/api/v1/ai/search-documents" ->
         Reply(200, [success |-> TRUE,
                     data |-> [results |-> <<[documentId |-> "d1", score |-> 90]>>]])
    [] req.path = "/api/v1/ai/suggest-breakdown" ->
         Reply(200, [success |-> TRUE,
                     data |-> [subtasks |-> <<[title |-> <<"Design">>,
                                               description |-> <<"Draft the design">>,
                                               estimatedTime |-> 2,
                                               priority |-> "high"]>>]])
    [] req.path = "/api/v1/ai/estimate-effort" ->
         Reply(200, [success |-> TRUE,
                     data |-> [estimates |->
                                 [totalHours |-> 5 * Len(req.body.tasks),
                                  taskEstimates |->
                                    [i \in 1..Len(req.body.tasks) |->
                                       [taskId |-> i, hours |-> 5, confidence |-> "high"]]]]])
    [] OTHER -> Engine(req, now)

UnhealthyEngine(req) ==
  IF req.path = "/health"
  THEN Reply(200, [status |-> "degraded", service |-> "zenai-ai-engine"])
  ELSE Reply(503, [success |-> FALSE, error |-> "AI service not initialized"])

Upstream(mode, req, now) ==
  CASE mode = "engine" -> Engine(req, now)
    [] mode = "complete" -> CompleteEngine(req, now)
    [] mode = "unhealthy" -> UnhealthyEngine(req)
    [] mode = "garbled" -> Reply(200, [raw |-> "<html>"])
    [] mode = "slow" -> Reply(0, [code |-> "ECONNABORTED"])
    [] mode = "down" -> Reply(0, [code |-> "ECONNREFUSED"])

\* the axios client: the promise resolves on a 2xx status and rejects on any
\* other status, on a timeout and on a connection error
Axios(mode, req, now) ==
  LET reply == Upstream(mode, req, now)
  IN [settled |-> IF reply.status \in 200..299 THEN "resolved" ELSE "rejected",
      status |-> reply.status,
      data |-> reply.body]

\* ------------------------------------- zenai-backend/services/ai.service.js
Post(path, body) == [method |-> "POST", path |-> path, body |-> body, timeout |-> 30000]

GetFrom(path, params, timeout) ==
  [method |-> "GET", path |-> path, body |-> params, timeout |-> timeout]

\* the request each method hands to this.client
Request(op, arg) ==
  CASE op = "chat" ->
         Post("/api/v1/ai/chat", [message |-> arg.message, context |-> arg.context])
    [] op = "createTaskFromDescription" ->
         Post("/api/v1/ai/create-task",
              [description |-> arg.description, projectId |-> arg.projectId])
    [] op = "analyzeTask" ->
         Post("/api/v1/ai/analyze-task",
              [task |-> [_id |-> arg.task._id,
                         title |-> arg.task.title,
                         description |-> arg.task.description,
                         priority |-> arg.task.priority,
                         status |-> arg.task.status],
               projectContext |-> arg.projectContext])
    [] op = "analyzeProject" ->
         Post("/api/v1/ai/analyze-project",
              [projectData |-> [name |-> arg.projectData.name,
                                status |-> arg.projectData.status,
                                progress |-> arg.projectData.progress,
                                deadline |-> arg.projectData.deadline],
               tasks |-> [i \in 1..Len(arg.tasks) |->
                            [_id |-> arg.tasks[i]._id,
                             title |-> arg.tasks[i].title,
                             status |-> arg.tasks[i].status,
                             priority |-> arg.tasks[i].priority,
                             dueDate |-> arg.tasks[i].dueDate]]])
    [] op = "transcribeAudio" ->
         Post("/api/v1/ai/transcribe",
              [audio |-> arg.audioFilePath,
               title |-> Get(arg.meetingContext, "title"),
               participants |-> Get(arg.meetingContext, "participants"),
               date |-> Get(arg.meetingContext, "date")])
    [] op = "indexDocument" ->
         Post("/api/v1/ai/index-document",
              [content |-> arg.content, metadata |-> arg.metadata])
    [] op = "searchDocuments" ->
         GetFrom("/api/v1/ai/search-documents",
                 [query |-> arg.query,
                  limit |-> IF Has(arg.options, "limit") THEN arg.options.limit ELSE 5,
                  filter |-> ToString(Get(arg.options, "filter"))],
                 30000)
    [] op = "suggestTaskBreakdown" ->
         Post("/api/v1/ai/suggest-breakdown",
              [task |-> [title |-> arg.epicTask.title,
                         description |-> arg.epicTask.description]])
    [] op = "estimateEffort" ->
         Post("/api/v1/ai/estimate-effort",
              [tasks |-> [i \in 1..Len(arg.tasks) |->
                            [title |-> arg.tasks[i].title,
                             description |-> arg.tasks[i].description,
                             priority |-> arg.tasks[i].priority]]])
    [] op = "isAvailable" -> GetFrom("/health", [none |-> TRUE], arg.timeout)

\* how a call ends: the value it returns or the error it throws, and whether
\* the try block or the catch block produced it
Return(value, branch) == [outcome |-> "return", result |-> value, branch |-> branch]

Throw(message) ==
  [outcome |-> "throw", result |-> [message |-> message], branch |-> "catch"]

\* data.field || data
OrElse(data, field) == IF Has(data, field) THEN data[field] ELSE data

\* whether response.data.data can be dereferenced
HasData(response) == Has(response.data, "data")

\* response.data.data
DataOf(response) == IF HasData(response) THEN response.data.data ELSE noValue

\* the catch blocks
chatCatch ==
  Return([response |->
            <<"I'm currently experiencing connectivity issues. Please try again later.">>,
          metadata |-> [error |-> TRUE, fallback |-> TRUE]],
         "catch")

\* faulty variant: the title cut one character short
createTaskFromDescriptionCatchShort(arg) ==
  Return([success |-> TRUE,
          task |-> [title |-> substring(arg.description, 0, 99),
                    description |-> arg.description,
                    priority |-> "medium",
                    estimatedTime |-> 4,
                    tags |-> <<"pending-ai-analysis">>,
                    status |-> "todo"]],
         "catch")

createTaskFromDescriptionCatch(arg) ==
  Return([success |-> TRUE,
          task |-> [title |-> substring(arg.description, 0, 100),
                    description |-> arg.description,
                    priority |-> "medium",
                    estimatedTime |-> 4,
                    tags |-> <<"pending-ai-analysis">>,
                    status |-> "todo"]],
         "catch")

analyzeTaskCatch(arg) ==
  Return([complexityScore |-> 5,
          estimatedHours |-> 8,
          skillsRequired |-> <<"General">>,
          dependencies |-> <<>>,
          risks |-> <<"Unable to perform AI analysis">>,
          recommendations |-> <<"Manual review recommended">>,
          blockers |-> <<>>],
         "catch")

analyzeProjectCatch(arg) ==
  LET completedTasks == Cardinality({i \in 1..Len(arg.tasks) : arg.tasks[i].status = "done"})
      totalTasks == Len(arg.tasks)
  IN Return([healthScore |-> IF totalTasks > 0
                             THEN RoundedPercent(completedTasks, totalTasks)
                             ELSE 0,
             status |-> "unknown",
             insights |-> <<"AI analysis unavailable">>,
             risks |-> <<>>,
             recommendations |-> <<"Manual project review recommended">>],
            "catch")

\* faulty variant: an empty transcript instead of the error
transcribeAudioCatchReturns(arg) ==
  Return([transcript |-> <<>>, summary |-> <<>>], "catch")

transcribeAudioCatch(arg) == Throw("Audio transcription service unavailable")

indexDocumentCatch(arg) ==
  Return([success |-> FALSE, message |-> "Document indexing unavailable"], "catch")

\* faulty variant: a made-up hit instead of an empty list
searchDocumentsCatchCanned(arg) ==
  Return([results |-> <<[documentId |-> "d0", score |-> 0]>>], "catch")

searchDocumentsCatch(arg) == Return([results |-> <<>>], "catch")

suggestTaskBreakdownCatch(arg) ==
  Return(<<[title |-> arg.epicTask.title \o <<" - Phase 1">>,
            description |-> <<"Initial implementation">>,
            estimatedTime |-> 4,
            priority |-> "high"],
           [title |-> arg.epicTask.title \o <<" - Phase 2">>,
            description |-> <<"Testing and refinement">>,
            estimatedTime |-> 3,
            priority |-> "medium"]>>,
         "catch")

\* faulty variant: the catch block rethrows, as transcribeAudio's does
estimateEffortCatchRethrows(arg) == Throw("Effort estimation service unavailable")

\* faulty variant: the estimates listed last task first
estimateEffortCatchReversed(arg) ==
  Return([totalHours |-> Len(arg.tasks) * 8,
          taskEstimates |-> [i \in 1..Len(arg.tasks) |->
                               [taskId |-> arg.tasks[Len(arg.tasks) + 1 - i]._id,
                                hours |-> 8,
                                confidence |-> "low"]]],
         "catch")

estimateEffortCatch(arg) ==
  Return([totalHours |-> Len(arg.tasks) * 8,
          taskEstimates |-> [i \in 1..Len(arg.tasks) |->
                               [taskId |-> arg.tasks[i]._id,
                                hours |-> 8,
                                confidence |-> "low"]]],
         "catch")

\* faulty variant: the probe lets the failure of its request out
isAvailableCatchRethrows == Throw("AI engine unavailable")

isAvailableCatch == Return(FALSE, "catch")

\* the methods with a single await, from the settled request to the end:
\* reading a field of response.data.data when the body has no data is a
\* TypeError inside the try block
\* faulty variant: the fallback task carries the status of the failed request
createTaskFromDescriptionEndLeaky(arg, response) ==
  IF response.settled = "rejected" \/ ~HasData(response)
  THEN Return([success |-> TRUE,
               task |-> [title |-> substring(arg.description, 0, 100),
                         description |-> arg.description,
                         priority |-> "medium",
                         estimatedTime |-> 4,
                         tags |-> <<"pending-ai-analysis">>,
                         status |-> "todo",
                         error |-> response.status]],
              "catch")
  ELSE Return([success |-> TRUE, task |-> OrElse(response.data.data, "task")], "try")

createTaskFromDescriptionEnd(arg, response) ==
  IF response.settled = "rejected" \/ ~HasData(response)
  THEN createTaskFromDescriptionCatch(arg)
  ELSE Return([success |-> TRUE, task |-> OrElse(response.data.data, "task")], "try")

analyzeTaskEnd(arg, response) ==
  IF response.settled = "rejected" \/ ~HasData(response)
  THEN analyzeTaskCatch(arg)
  ELSE Return(OrElse(response.data.data, "analysis"), "try")

analyzeProjectEnd(arg, response) ==
  IF response.settled = "rejected" \/ ~HasData(response)
  THEN analyzeProjectCatch(arg)
  ELSE Return(OrElse(response.data.data, "health"), "try")

transcribeAudioEnd(arg, response) ==
  IF response.settled = "rejected"
  THEN transcribeAudioCatch(arg)
  ELSE Return(DataOf(response), "try")

indexDocumentEnd(arg, response) ==
  IF response.settled = "rejected"
  THEN indexDocumentCatch(arg)
  ELSE Return(DataOf(response), "try")

searchDocumentsEnd(arg, response) ==
  IF response.settled = "rejected"
  THEN searchDocumentsCatch(arg)
  ELSE Return(DataOf(response), "try")

suggestTaskBreakdownEnd(arg, response) ==
  IF response.settled = "rejected" \/ ~HasData(response)
  THEN suggestTaskBreakdownCatch(arg)
  ELSE Return(OrElse(response.data.data, "subtasks"), "try")

estimateEffortEnd(arg, response) ==
  IF response.settled = "rejected" \/ ~HasData(response)
  THEN estimateEffortCatch(arg)
  ELSE Return(OrElse(response.data.data, "estimates"), "try")

\* faulty variant: any answered request counts, as in checkConnection
isAvailableEndAnyAnswer(response) ==
  IF response.settled = "rejected"
  THEN isAvailableCatch
  ELSE Return(TRUE, "try")

isAvailableEnd(response) ==
  IF response.settled = "rejected"
  THEN isAvailableCatch
  ELSE Return(Get(response.data, "status") = "healthy", "try")

\* the two documents chat hands to ChatMessage.create
userMessage(arg) ==
  [user |-> arg.userId,
   role |-> "user",
   content |-> arg.message,
   context |-> [projectId |-> Get(arg.context, "projectId"),
                taskId |-> Get(arg.context, "taskId")]]

\* faulty variant: the ai record stored under the user's role
aiMessageAsUser(arg, response, responseTime) ==
  [user |-> arg.userId,
   role |-> "user",
   content |-> response.data.data.response,
   context |-> [projectId |-> Get(arg.context, "projectId"),
                taskId |-> Get(arg.context, "taskId")],
   metadata |-> [model |-> "gpt-4", responseTime |-> responseTime]]

aiMessage(arg, response, responseTime) ==
  [user |-> arg.userId,
   role |-> "ai",
   content |-> response.data.data.response,
   context |-> [projectId |-> Get(arg.context, "projectId"),
                taskId |-> Get(arg.context, "taskId")],
   metadata |-> [model |-> "gpt-4", responseTime |-> responseTime]]

chatReturn(arg, response, responseTime) ==
  Return([response |-> response.data.data.response,
          metadata |-> [responseTime |-> responseTime,
                        agent |-> IF Has(arg.context, "type")
                                  THEN arg.context.type
                                  ELSE "product-manager"]],
         "try")

\* ------------------------------------------------------------------ state
Calls == {"c1", "c2"}

VARIABLES
  mode,        \* what answers at AI_ENGINE_URL at the moment
  calls,       \* the invocations of the gateway's methods, one per caller
  messages,    \* the ChatMessage collection, in order of creation
  connection,  \* what checkConnection, started by the constructor, has logged
  lastProbe    \* the outcome of the most recent /health request

vars == <<mode, calls, messages, connection, lastProbe>>

noResponse == [settled |-> "none"]

Idle ==
  [op |-> "none", arg |-> noValue, pc |-> "idle", response |-> noResponse,
   responseTime |-> 0, outcome |-> "none", result |-> noValue, branch |-> "none",
   appended |-> 0, requests |-> 0, servedBy |-> "none", known |-> "none"]

Ended(c) == calls[c].pc = "ended"

\* documents chat calls in flight may still append
Pending == Cardinality({c \in Calls : calls[c].op = "chat" /\ ~Ended(c)})

Init ==
  /\ mode \in Modes
  /\ calls = [c \in Calls |-> Idle]
  /\ messages = <<>>
  /\ connection = "checking"
  /\ lastProbe = "none"

\* the method ends; response is the settled request it last awaited and, for
\* isAvailable, servedBy is what answered it
End(c, completion, response) ==
  calls' = [calls EXCEPT ![c] = [@ EXCEPT !.pc = "ended",
                                          !.response = response,
                                          !.outcome = completion.outcome,
                                          !.result = completion.result,
                                          !.branch = completion.branch,
                                          !.servedBy = IF calls[c].op = "isAvailable" THEN mode ELSE "none"]]

\* faulty variant: a method other than the probe skips its request and takes
\* its failure outcome at once when the latest probe failed
CallGated(c, op, arg) ==
  /\ calls[c].pc = "idle"
  /\ op = "chat" => Len(messages) + 2 * Pending + 2 <= MaxMessages
  /\ calls' = [calls EXCEPT ![c] =
                 IF lastProbe = "failed" /\ op # "isAvailable"
                 THEN [Idle EXCEPT !.op = op, !.arg = arg, !.pc = "ended",
                                   !.outcome = "return", !.branch = "catch",
                                   !.known = lastProbe]
                 ELSE [Idle EXCEPT !.op = op, !.arg = arg, !.pc = "request",
                                   !.requests = 1, !.known = lastProbe]]
  /\ UNCHANGED <<mode, messages, connection, lastProbe>>

\* a caller invokes a method: the method runs up to its first await, the
\* request is on its way; known is the outcome of the latest probe before the
\* call, which the method never looks at
Call(c, op, arg) ==
  /\ calls[c].pc = "idle"
  /\ op = "chat" => Len(messages) + 2 * Pending + 2 <= MaxMessages
  /\ calls' = [calls EXCEPT ![c] = [Idle EXCEPT !.op = op, !.arg = arg,
                                                !.pc = "request", !.requests = 1,
                                                !.known = lastProbe]]
  /\ UNCHANGED <<mode, messages, connection, lastProbe>>

Awaiting(c, op) == calls[c].op = op /\ calls[c].pc = "request"

\* constructor: checkConnection, not awaited
checkConnection ==
  /\ connection = "checking"
  /\ \E now \in 0..MaxElapsed :
       LET response == Axios(mode, GetFrom("/health", [none |-> TRUE], 30000), now)
       IN /\ connection' = IF response.settled = "resolved" THEN "established" ELSE "fallback"
          /\ lastProbe' = IF response.settled = "resolved" THEN "succeeded" ELSE "failed"
  /\ UNCHANGED <<mode, calls, messages>>

\* chat, from the settled request to the first ChatMessage.create
chat(c) ==
  /\ Awaiting(c, "chat")
  /\ \E now \in 0..MaxElapsed, responseTime \in 0..MaxElapsed :
       LET response == Axios(mode, Request("chat", calls[c].arg), now)
       IN IF response.settled = "rejected"
          THEN End(c, chatCatch, response)
          ELSE calls' = [calls EXCEPT ![c] = [@ EXCEPT !.pc = "saveUser",
                                                       !.response = response,
                                                       !.responseTime = responseTime]]
  /\ UNCHANGED <<mode, messages, connection, lastProbe>>

\* faulty variant: the store keeps one slot per writer at a time, so that a
\* record written while another is the latest takes its place
chatUserSavedOverwriting(c, stored) ==
  /\ calls[c].op = "chat" /\ calls[c].pc = "saveUser"
  /\ IF ~stored
     THEN End(c, chatCatch, calls[c].response) /\ UNCHANGED messages
     ELSE /\ messages' = IF messages = <<>>
                          THEN <<userMessage(calls[c].arg)>>
                          ELSE [messages EXCEPT ![Len(messages)] = userMessage(calls[c].arg)]
          /\ IF ~HasData(calls[c].response)
             THEN calls' = [calls EXCEPT ![c] = [@ EXCEPT !.pc = "ended",
                                                          !.outcome = chatCatch.outcome,
                                                          !.result = chatCatch.result,
                                                          !.branch = chatCatch.branch,
                                                          !.appended = @ + 1]]
             ELSE calls' = [calls EXCEPT ![c] = [@ EXCEPT !.pc = "saveAi",
                                                          !.appended = @ + 1]]
  /\ UNCHANGED <<mode, connection, lastProbe>>

\* chat, from the first ChatMessage.create settling to the second one; stored
\* tells whether the store accepted the document
chatUserSaved(c, stored) ==
  /\ calls[c].op = "chat" /\ calls[c].pc = "saveUser"
  /\ IF ~stored
     THEN End(c, chatCatch, calls[c].response) /\ UNCHANGED messages
     ELSE /\ messages' = Append(messages, userMessage(calls[c].arg))
          /\ IF ~HasData(calls[c].response)
             THEN calls' = [calls EXCEPT ![c] = [@ EXCEPT !.pc = "ended",
                                                          !.outcome = chatCatch.outcome,
                                                          !.result = chatCatch.result,
                                                          !.branch = chatCatch.branch,
                                                          !.appended = @ + 1]]
             ELSE calls' = [calls EXCEPT ![c] = [@ EXCEPT !.pc = "saveAi",
                                                          !.appended = @ + 1]]
  /\ UNCHANGED <<mode, connection, lastProbe>>

\* faulty variant: chat returns the answer without waiting for the second
\* ChatMessage.create, which has not stored its record yet
chatAiSavedNotAwaited(c, stored) ==
  /\ calls[c].op = "chat" /\ calls[c].pc = "saveAi"
  /\ LET done == chatReturn(calls[c].arg, calls[c].response, calls[c].responseTime)
     IN calls' = [calls EXCEPT ![c] = [@ EXCEPT !.pc = "ended",
                                                !.outcome = done.outcome,
                                                !.result = done.result,
                                                !.branch = done.branch]]
  /\ UNCHANGED <<mode, messages, connection, lastProbe>>

\* faulty variant: when the ai record cannot be stored, the user record stored
\* just before is taken out again
chatAiSavedRollsBack(c, stored) ==
  /\ calls[c].op = "chat" /\ calls[c].pc = "saveAi"
  /\ IF ~stored
     THEN /\ End(c, chatCatch, calls[c].response)
          /\ messages' = SubSeq(messages, 1, Len(messages) - 1)
     ELSE LET done == chatReturn(calls[c].arg, calls[c].response, calls[c].responseTime)
          IN /\ messages' = Append(messages, aiMessage(calls[c].arg, calls[c].response,
                                                       calls[c].responseTime))
             /\ calls' = [calls EXCEPT ![c] = [@ EXCEPT !.pc = "ended",
                                                        !.outcome = done.outcome,
                                                        !.result = done.result,
                                                        !.branch = done.branch,
                                                        !.appended = @ + 1]]
  /\ UNCHANGED <<mode, connection, lastProbe>>

\* chat, from the second ChatMessage.create settling to the end
chatAiSaved(c, stored) ==
  /\ calls[c].op = "chat" /\ calls[c].pc = "saveAi"
  /\ IF ~stored
     THEN End(c, chatCatch, calls[c].response) /\ UNCHANGED messages
     ELSE LET done == chatReturn(calls[c].arg, calls[c].response, calls[c].responseTime)
          IN /\ messages' = Append(messages, aiMessage(calls[c].arg, calls[c].response,
                                                       calls[c].responseTime))
             /\ calls' = [calls EXCEPT ![c] = [@ EXCEPT !.pc = "ended",
                                                        !.outcome = done.outcome,
                                                        !.result = done.result,
                                                        !.branch = done.branch,
                                                        !.appended = @ + 1]]
  /\ UNCHANGED <<mode, connection, lastProbe>>

Settled(c, op, now) == Axios(mode, Request(op, calls[c].arg), now)

createTaskFromDescription(c) ==
  /\ Awaiting(c, "createTaskFromDescription")
  /\ \E now \in 0..MaxElapsed :
       LET response == Settled(c, "createTaskFromDescription", now)
       IN End(c, createTaskFromDescriptionEnd(calls[c].arg, response), response)
  /\ UNCHANGED <<mode, messages, connection, lastProbe>>

\* faulty variant: a failed request is sent once more before the fallback
analyzeTaskRetrying(c) ==
  /\ Awaiting(c, "analyzeTask")
  /\ \E now \in 0..MaxElapsed :
       LET response == Settled(c, "analyzeTask", now)
       IN IF response.settled = "rejected" /\ calls[c].requests < 2
          THEN calls' = [calls EXCEPT ![c] = [@ EXCEPT !.response = response,
                                                       !.requests = @ + 1]]
          ELSE End(c, analyzeTaskEnd(calls[c].arg, response), response)
  /\ UNCHANGED <<mode, messages, connection, lastProbe>>

analyzeTask(c) ==
  /\ Awaiting(c, "analyzeTask")
  /\ \E now \in 0..MaxElapsed :
       LET response == Settled(c, "analyzeTask", now)
       IN End(c, analyzeTaskEnd(calls[c].arg, response), response)
  /\ UNCHANGED <<mode, messages, connection, lastProbe>>

analyzeProject(c) ==
  /\ Awaiting(c, "analyzeProject")
  /\ \E now \in 0..MaxElapsed :
       LET response == Settled(c, "analyzeProject", now)
       IN End(c, analyzeProjectEnd(calls[c].arg, response), response)
  /\ UNCHANGED <<mode, messages, connection, lastProbe>>

transcribeAudio(c) ==
  /\ Awaiting(c, "transcribeAudio")
  /\ \E now \in 0..MaxElapsed :
       LET response == Settled(c, "transcribeAudio", now)
       IN End(c, transcribeAudioEnd(calls[c].arg, response), response)
  /\ UNCHANGED <<mode, messages, connection, lastProbe>>

indexDocument(c) ==
  /\ Awaiting(c, "indexDocument")
  /\ \E now \in 0..MaxElapsed :
       LET response == Settled(c, "indexDocument", now)
       IN End(c, indexDocumentEnd(calls[c].arg, response), response)
  /\ UNCHANGED <<mode, messages, connection, lastProbe>>

searchDocuments(c) ==
  /\ Awaiting(c, "searchDocuments")
  /\ \E now \in 0..MaxElapsed :
       LET response == Settled(c, "searchDocuments", now)
       IN End(c, searchDocumentsEnd(calls[c].arg, response), response)
  /\ UNCHANGED <<mode, messages, connection, lastProbe>>

suggestTaskBreakdown(c) ==
  /\ Awaiting(c, "suggestTaskBreakdown")
  /\ \E now \in 0..MaxElapsed :
       LET response == Settled(c, "suggestTaskBreakdown", now)
       IN End(c, suggestTaskBreakdownEnd(calls[c].arg, response), response)
  /\ UNCHANGED <<mode, messages, connection, lastProbe>>

estimateEffort(c) ==
  /\ Awaiting(c, "estimateEffort")
  /\ \E now \in 0..MaxElapsed :
       LET response == Settled(c, "estimateEffort", now)
       IN End(c, estimateEffortEnd(calls[c].arg, response), response)
  /\ UNCHANGED <<mode, messages, connection, lastProbe>>

isAvailable(c) ==
  /\ Awaiting(c, "isAvailable")
  /\ \E now \in 0..MaxElapsed :
       LET response == Settled(c, "isAvailable", now)
       IN /\ End(c, isAvailableEnd(response), response)
          /\ lastProbe' = IF response.settled = "resolved" /\ isAvailableEnd(response).result
                          THEN "succeeded" ELSE "failed"
  /\ UNCHANGED <<mode, messages, connection>>

\* the caller takes the outcome and may call again
Release(c) ==
  /\ Ended(c)
  /\ calls' = [calls EXCEPT ![c] = Idle]
  /\ UNCHANGED <<mode, messages, connection, lastProbe>>

\* the engine starts, stops, is replaced or misbehaves
SetMode(m) ==
  /\ m # mode
  /\ mode' = m
  /\ UNCHANGED <<calls, messages, connection, lastProbe>>

\* one caller's steps through the methods of the gateway
Step(c) ==
  \/ \E op \in Ops : \E arg \in Args(op) : Call(c, op, arg)
  \/ chat(c)
  \/ \E stored \in BOOLEAN : chatUserSaved(c, stored)
  \/ \E stored \in BOOLEAN : chatAiSaved(c, stored)
  \/ createTaskFromDescription(c)
  \/ analyzeTask(c)
  \/ analyzeProject(c)
  \/ transcribeAudio(c)
  \/ indexDocument(c)
  \/ searchDocuments(c)
  \/ suggestTaskBreakdown(c)
  \/ estimateEffort(c)
  \/ isAvailable(c)
  \/ Release(c)

\* the service used by one caller at a time
Next ==
  \/ Step("c1")
  \/ checkConnection
  \/ \E m \in Modes : SetMode(m)

Spec == Init /\ [][Next]_vars

\* the methods that have a fallback value, used by two callers at once
StepFallbacks(c) ==
  \/ \E op \in FallbackOps : \E arg \in FewArgs(op) : Call(c, op, arg)
  \/ chat(c)
  \/ \E stored \in BOOLEAN : chatUserSaved(c, stored)
  \/ \E stored \in BOOLEAN : chatAiSaved(c, stored)
  \/ createTaskFromDescription(c)
  \/ analyzeTask(c)
  \/ analyzeProject(c)
  \/ suggestTaskBreakdown(c)
  \/ estimateEffort(c)
  \/ Release(c)

NextConcurrent ==
  \/ \E c \in Calls : StepFallbacks(c)
  \/ \E m \in Modes : SetMode(m)

SpecConcurrent == Init /\ [][NextConcurrent]_vars

\* the fallback computations over long inputs, the upstream failing throughout
InitFallback ==
  /\ Init
  /\ mode \in {"unhealthy", "garbled", "slow", "down"}

NextFallback ==
  \/ \E op \in {"createTaskFromDescription", "analyzeProject"} :
       \E arg \in LongArgs(op) : Call("c1", op, arg)
  \/ createTaskFromDescription("c1")
  \/ analyzeProject("c1")
  \/ Release("c1")

SpecFallback == InitFallback /\ [][NextFallback]_vars

\* chat invoked while other chat calls are in flight
CallChat(c, arg) ==
  /\ calls[c].pc = "idle"
  /\ calls' = [calls EXCEPT ![c] = [Idle EXCEPT !.op = "chat", !.arg = arg,
                                                !.pc = "request", !.requests = 1,
                                                !.known = lastProbe]]
  /\ UNCHANGED <<mode, messages, connection, lastProbe>>

\* every caller makes one chat call; the calls overlap in every possible way
NextChats ==
  \/ \E c \in Calls : \E arg \in ChatArgs : CallChat(c, arg)
  \/ \E c \in Calls : chat(c)
  \/ \E c \in Calls : \E stored \in BOOLEAN : chatUserSaved(c, stored)
  \/ \E c \in Calls : \E stored \in BOOLEAN : chatAiSaved(c, stored)
  \/ \E m \in Modes : SetMode(m)

SpecChats == Init /\ [][NextChats]_vars

\* ------------------------------------------------------------------ claims
EndedOp(c, op) == Ended(c) /\ calls[c].op = op

\* the upstream request of an ended call failed: the client's promise rejected
Failed(c) == calls[c].response.settled = "rejected"

Last(k) == messages[Len(messages) - k]

Marked(op, result) ==
  /\ op # "suggestTaskBreakdown"
  /\ Has(result, "metadata")
  /\ Has(result.metadata, "fallback") /\ Has(result.metadata, "error")
  /\ result.metadata.fallback = TRUE /\ result.metadata.error = TRUE

\* C2: a method with a fallback returns a value marked metadata.fallback (and
\* metadata.error) exactly when the value was made up locally
C2_FallbackMarked ==
  \A c \in Calls :
    (Ended(c) /\ calls[c].op \in FallbackOps /\ calls[c].outcome = "return") =>
      (Marked(calls[c].op, calls[c].result) <=> calls[c].branch = "catch")

\* C3: a method with a fallback ends by returning, whatever the upstream did
C3_FallbackOpsReturn ==
  \A c \in Calls :
    (Ended(c) /\ calls[c].op \in FallbackOps) => calls[c].outcome = "return"

\* C3 witness: estimateEffort has returned after its upstream request failed
C3_Witness ==
  \E c \in Calls :
    /\ EndedOp(c, "estimateEffort") /\ Failed(c)
    /\ calls[c].outcome = "return"

\* C4: when the upstream request fails, indexDocument reports success = false,
\* searchDocuments reports no results and transcribeAudio returns nothing
C4_NothingFabricated ==
  \A c \in Calls :
    (Ended(c) /\ Failed(c)) =>
      /\ calls[c].op = "indexDocument" =>
           calls[c].outcome = "return" /\ calls[c].result.success = FALSE
      /\ calls[c].op = "searchDocuments" =>
           calls[c].outcome = "return" /\ calls[c].result.results = <<>>
      /\ calls[c].op = "transcribeAudio" => calls[c].outcome = "throw"

\* C4 witness: searchDocuments has ended after its upstream request failed
C4_Witness ==
  \E c \in Calls : EndedOp(c, "searchDocuments") /\ Failed(c)

\* C5, as the specification states it: transcription, indexing and search all
\* raise when the upstream request fails
C5_AllThreeRaise ==
  \A c \in Calls :
    (Ended(c) /\ Failed(c) /\ calls[c].op \in NoFallbackOps) => calls[c].outcome = "throw"

\* C5, amended: of the three, only transcribeAudio raises, always the same
\* error; indexDocument and searchDocuments return their fixed failure values
C5_OnlyTranscribeRaises ==
  \A c \in Calls :
    (Ended(c) /\ Failed(c)) =>
      /\ calls[c].op = "transcribeAudio" =>
           /\ calls[c].outcome = "throw"
           /\ calls[c].result.message = "Audio transcription service unavailable"
      /\ calls[c].op = "indexDocument" =>
           /\ calls[c].outcome = "return"
           /\ calls[c].result =
                [success |-> FALSE, message |-> "Document indexing unavailable"]
      /\ calls[c].op = "searchDocuments" =>
           /\ calls[c].outcome = "return"
           /\ calls[c].result = [results |-> <<>>]

\* C5 witness: indexDocument has returned after its upstream request failed
C5_Witness ==
  \E c \in Calls :
    EndedOp(c, "indexDocument") /\ Failed(c) /\ calls[c].outcome = "return"

\* Math.round of 100 * completed / total in exact arithmetic, halves upward
ExactPercent(completed, total) == (200 * completed + total) \div (2 * total)

Done(tasks) == Cardinality({i \in 1..Len(tasks) : tasks[i].status = "done"})

\* C6: the fallback healthScore is round(100 * completed / total), or 0 for an
\* empty task list, an integer in 0..100, and the status is "unknown"
C6_HealthScore ==
  \A c \in Calls :
    (EndedOp(c, "analyzeProject") /\ calls[c].branch = "catch") =>
      LET tasks == calls[c].arg.tasks
      IN /\ calls[c].result.healthScore =
              (IF Len(tasks) > 0 THEN ExactPercent(Done(tasks), Len(tasks)) ELSE 0)
         /\ calls[c].result.healthScore \in 0..100
         /\ calls[c].result.status = "unknown"

\* C7: the fallback task's title is the first 100 characters of a longer
\* description and the whole of a shorter one; the other fields are fixed
C7_TitleTruncated ==
  \A c \in Calls :
    (EndedOp(c, "createTaskFromDescription") /\ calls[c].branch = "catch") =>
      LET description == calls[c].arg.description
          task == calls[c].result.task
      IN /\ Len(description) > 100 =>
              /\ Len(task.title) = 100
              /\ \A i \in 1..100 : task.title[i] = description[i]
         /\ Len(description) <= 100 => task.title = description
         /\ task.description = description
         /\ task.priority = "medium"
         /\ task.estimatedTime = 4
         /\ task.tags = <<"pending-ai-analysis">>
         /\ task.status = "todo"

\* C7 witness: the fallback task of a description longer than 100 characters
C7_Witness ==
  \E c \in Calls :
    /\ EndedOp(c, "createTaskFromDescription") /\ calls[c].branch = "catch"
    /\ Len(calls[c].arg.description) > 100
    /\ Len(calls[c].result.task.title) = 100

\* C8: the fallback estimate of N tasks has totalHours = 8 * N and N entries,
\* the i-th for the i-th task, each of 8 hours at low confidence
C8_EffortPerTask ==
  \A c \in Calls :
    (EndedOp(c, "estimateEffort") /\ calls[c].branch = "catch") =>
      LET tasks == calls[c].arg.tasks
          estimates == calls[c].result.taskEstimates
      IN /\ calls[c].result.totalHours = 8 * Len(tasks)
         /\ Len(estimates) = Len(tasks)
         /\ \A i \in 1..Len(tasks) :
              /\ estimates[i].taskId = tasks[i]._id
              /\ estimates[i].hours = 8
              /\ estimates[i].confidence = "low"

\* C8 witness: the fallback estimate of a list of at least two tasks
C8_Witness ==
  \E c \in Calls :
    /\ EndedOp(c, "estimateEffort") /\ calls[c].branch = "catch"
    /\ Len(calls[c].arg.tasks) >= 2
    /\ calls[c].result.totalHours = 8 * Len(calls[c].arg.tasks)

\* C9: two calls of the same method with the same arguments that both took the
\* fallback return the same value, whenever and however their requests failed
C9_FallbackDeterministic ==
  \A c \in Calls, d \in Calls :
    (/\ Ended(c) /\ Ended(d)
     /\ calls[c].op \in FallbackOps /\ calls[c].op = calls[d].op
     /\ calls[c].arg = calls[d].arg
     /\ calls[c].branch = "catch" /\ calls[d].branch = "catch") =>
      /\ calls[c].outcome = calls[d].outcome
      /\ calls[c].result = calls[d].result

\* C9 witness: two such calls whose requests failed in different ways
C9_Witness ==
  \E c \in Calls, d \in Calls :
    /\ c # d /\ Ended(c) /\ Ended(d)
    /\ calls[c].op = "createTaskFromDescription" /\ calls[d].op = calls[c].op
    /\ calls[c].arg = calls[d].arg
    /\ calls[c].branch = "catch" /\ calls[d].branch = "catch"
    /\ Failed(c) /\ Failed(d)
    /\ calls[c].response.status # calls[d].response.status

\* the upstreams whose /health answers 200 with status "healthy"
HealthyModes == {"engine", "complete"}

ProbeStep ==
  \/ connection' # connection
  \/ \E c \in Calls :
       calls[c].op = "isAvailable" /\ calls[c].pc = "request" /\ calls'[c].pc = "ended"

\* C11, as the specification states it: every invocation issues its request
\* and takes its failure outcome only if that request itself failed
C11_FallsBackOnlyOnFailedRequest ==
  \A c \in Calls :
    calls[c].pc # "idle" =>
      /\ calls[c].requests = 1
      /\ (Ended(c) /\ calls[c].op # "isAvailable" /\ calls[c].branch = "catch") => Failed(c)

\* every invocation has issued its one request whatever the latest probe
\* found; it takes its failure outcome whenever the request failed, and
\* otherwise only when the answer has no data or chat could not store a record
RequestsWhateverTheProbe ==
  \A c \in Calls :
    calls[c].pc # "idle" =>
      /\ calls[c].requests = 1
      /\ (Ended(c) /\ calls[c].op # "isAvailable") =>
           /\ Failed(c) => calls[c].branch = "catch"
           /\ calls[c].branch = "catch" =>
                \/ Failed(c)
                \/ calls[c].op \in FallbackOps /\ ~HasData(calls[c].response)
                \/ calls[c].op = "chat" /\ calls[c].appended < 2

\* C11, amended: the outcome of the latest probe never gates a method: every
\* invocation issues its request even when that probe failed; it takes its
\* failure outcome when the request fails and otherwise only when a 2xx answer
\* has no data or a ChatMessage cannot be stored; and only the probes
\* themselves (checkConnection, isAvailable) change the probe outcome
C11_HealthNeverGates ==
  /\ []RequestsWhateverTheProbe
  /\ [][lastProbe' # lastProbe => ProbeStep]_vars

\* C11 witness: analyzeTask, called after a failed probe, has made its request
\* and returned the upstream's answer
C11_Witness ==
  \E c \in Calls :
    /\ EndedOp(c, "analyzeTask")
    /\ calls[c].known = "failed"
    /\ calls[c].requests = 1
    /\ calls[c].branch = "try"

\* the request of a call timed out
TimedOut(c) == Failed(c) /\ calls[c].response.data.code = "ECONNABORTED"

\* C12: no retry: an invocation issues exactly one upstream request, and once
\* that request has failed, a timeout included, the invocation has ended with
\* its failure outcome (the fallback value or the raised error)
C12_NoRetry ==
  \A c \in Calls :
    calls[c].pc # "idle" =>
      /\ calls[c].requests = 1
      /\ Failed(c) =>
           /\ Ended(c)
           /\ calls[c].branch = "catch"
           /\ calls[c].outcome = (IF calls[c].op = "transcribeAudio" THEN "throw" ELSE "return")

\* C12 witness: suggestTaskBreakdown has ended with its fallback after its one
\* request timed out
C12_Witness ==
  \E c \in Calls :
    /\ EndedOp(c, "suggestTaskBreakdown")
    /\ calls[c].response.status = 0
    /\ TimedOut(c)
    /\ calls[c].requests = 1
    /\ calls[c].branch = "catch"

\* the methods with a fallback whose paths this repository's engine serves
ServedFallbackOps == {"chat", "createTaskFromDescription", "analyzeTask", "analyzeProject"}

\* the value the catch block of a method makes of the arguments
FallbackOf(op, arg) ==
  CASE op = "chat" -> chatCatch.result
    [] op = "createTaskFromDescription" -> createTaskFromDescriptionCatch(arg).result
    [] op = "analyzeTask" -> analyzeTaskCatch(arg).result
    [] op = "analyzeProject" -> analyzeProjectCatch(arg).result

\* C13: the value a method returns when the engine answers has exactly the
\* fields of the fallback value the method makes of the same arguments
C13_SameFields ==
  \A c \in Calls :
    (Ended(c) /\ calls[c].op \in ServedFallbackOps /\ calls[c].branch = "try") =>
      DOMAIN calls[c].result = DOMAIN FallbackOf(calls[c].op, calls[c].arg)

\* the settled request of a call is what this repository's engine answers to it
AnsweredByEngine(c) ==
  \E now \in 0..MaxElapsed :
    calls[c].response = Axios("engine", Request(calls[c].op, calls[c].arg), now)

\* C14: to an analyze-task request with a task, whatever its projectContext,
\* the engine answers 200 {success: true, data} with an analysis in data
C14_AlwaysTaskAnalysis ==
  \A c \in Calls :
    (EndedOp(c, "analyzeTask") /\ AnsweredByEngine(c)) =>
      /\ calls[c].response.status = 200
      /\ calls[c].response.data.success = TRUE
      /\ Has(calls[c].response.data.data, "analysis")

\* C15: a chat call with an empty message that the upstream rejects stores no
\* ChatMessage and returns the fallback answer; this repository's engine
\* rejects every such request with status 400
C15_RejectedEmptyMessageStoresNothing ==
  \A c \in Calls :
    (EndedOp(c, "chat") /\ Falsy(calls[c].arg.message)) =>
      /\ Failed(c) => calls[c].appended = 0 /\ calls[c].result = chatCatch.result
      /\ AnsweredByEngine(c) =>
           /\ calls[c].response.status = 400
           /\ calls[c].appended = 0

\* C15 witness: a chat with an empty message has ended, the engine having
\* answered 400, with nothing in the store
C15_Witness ==
  \E c \in Calls :
    /\ EndedOp(c, "chat") /\ Falsy(calls[c].arg.message)
    /\ calls[c].response.status = 400
    /\ calls[c].appended = 0
    /\ messages = <<>>

\* C16: chat stores the user message first and the ai message, holding the
\* upstream's text, second, and returns the answer only after both are stored:
\* nothing is stored while the request is out, the user message alone is in
\* the store while the second create is awaited, no outcome exists before the
\* end, and at the end of the success path both are there in that order
C16_PersistedInOrderBeforeReturn ==
  \A c \in Calls :
    calls[c].op = "chat" =>
      LET call == calls[c]
      IN /\ ~Ended(c) => call.outcome = "none"
         /\ call.pc \in {"request", "saveUser"} => call.appended = 0
         /\ call.pc = "saveAi" =>
              /\ call.appended = 1
              /\ Last(0) = userMessage(call.arg)
         /\ (Ended(c) /\ call.branch = "try") =>
              /\ call.appended = 2
              /\ Last(1) = userMessage(call.arg)
              /\ Last(0) = aiMessage(call.arg, call.response, call.responseTime)
              /\ Last(0).content = call.response.data.data.response
              /\ call.result.response = Last(0).content

\* C16 witness: a chat has returned the upstream's answer and the store holds
\* its user message followed by its ai message
C16_Witness ==
  \E c \in Calls :
    /\ EndedOp(c, "chat") /\ calls[c].branch = "try" /\ calls[c].outcome = "return"
    /\ Len(messages) = 2
    /\ messages[1].role = "user" /\ messages[1].content = calls[c].arg.message
    /\ messages[2].role = "ai" /\ messages[2].content = calls[c].result.response

\* the /health request of a call was answered 2xx with status "healthy"
AnsweredHealthy(c) ==
  /\ calls[c].response.settled = "resolved"
  /\ calls[c].response.status \in 200..299
  /\ Get(calls[c].response.data, "status") = "healthy"

\* C17: a probe never raises: isAvailable ends by returning a boolean, true
\* exactly when its /health request was answered 2xx with status "healthy",
\* false when the request failed (timeout, refused, non-2xx) or the answer
\* says anything else; checkConnection ends in one of its two log lines
C17_ProbeNeverRaises ==
  /\ \A c \in Calls :
       EndedOp(c, "isAvailable") =>
         /\ calls[c].outcome = "return"
         /\ calls[c].result \in BOOLEAN
         /\ calls[c].result = AnsweredHealthy(c)
         /\ Failed(c) => calls[c].result = FALSE
  /\ connection \in {"checking", "established", "fallback"}

\* C17 witness: isAvailable has returned false after its request timed out,
\* and checkConnection has finished
C17_Witness ==
  \E c \in Calls :
    /\ EndedOp(c, "isAvailable")
    /\ calls[c].response.status = 0
    /\ TimedOut(c)
    /\ calls[c].outcome = "return" /\ calls[c].result = FALSE
    /\ connection # "checking"

\* every caller's chat has returned the upstream's answer
AllChatsSucceeded ==
  \A c \in Calls : EndedOp(c, "chat") /\ calls[c].branch = "try"

\* places in the store, one pair per call, no place used twice, holding the
\* call's user message and, after it, the call's ai message
Placed(place) ==
  /\ \A c \in Calls :
       /\ place[c][1] < place[c][2]
       /\ messages[place[c][1]] = userMessage(calls[c].arg)
       /\ messages[place[c][2]] =
            aiMessage(calls[c].arg, calls[c].response, calls[c].responseTime)
  /\ \A c \in Calls, d \in Calls :
       c # d => {place[c][1], place[c][2]} \cap {place[d][1], place[d][2]} = {}

\* C18: however the steps of N chat calls made at the same time interleave,
\* the store holds exactly what the calls appended, and when all of them
\* succeeded it holds 2N messages, each call's user message before its own ai
\* message, every message of every call in a place of its own
C18_ConcurrentChatsKeepEveryMessage ==
  LET N == Cardinality(Calls)
      appends == [c \in Calls |-> calls[c].appended]
  IN /\ Len(messages) = appends["c1"] + appends["c2"]
     /\ AllChatsSucceeded =>
          /\ Len(messages) = 2 * N
          /\ \E place \in [Calls -> (1..Len(messages)) \X (1..Len(messages))] : Placed(place)

\* C18 witness: two chats have both succeeded with their messages interleaved
\* in the store: user, user, ai, ai
C18_Witness ==
  /\ AllChatsSucceeded
  /\ Len(messages) = 4
  /\ messages[1].role = "user" /\ messages[2].role = "user"
  /\ messages[3].role = "ai" /\ messages[4].role = "ai"
  /\ messages[1].user # messages[2].user

\* the upstream answered the chat with data, yet a ChatMessage.create failed
AppendFailed(c) ==
  /\ EndedOp(c, "chat")
  /\ ~Failed(c) /\ HasData(calls[c].response)
  /\ calls[c].appended < 2

\* what chat returns and leaves behind when an append failed
ApologyAfterFailedAppend ==
  \A c \in Calls :
    AppendFailed(c) =>
      /\ calls[c].outcome = "return"
      /\ calls[c].result = chatCatch.result
      /\ calls[c].result.metadata.fallback = TRUE
      /\ calls[c].result.response # calls[c].response.data.data.response
      /\ calls[c].appended = 1 =>
           Len(messages) >= 1 /\ Last(0) = userMessage(calls[c].arg)

\* C19: when the upstream answers a chat but one of the two appends fails,
\* chat returns the connectivity apology marked metadata.fallback, not the
\* upstream's answer and not an error, and what was appended before the
\* failure stays: the store only ever grows at its end
C19_FailedAppendGivesApology ==
  /\ []ApologyAfterFailedAppend
  /\ [][/\ Len(messages') >= Len(messages)
        /\ SubSeq(messages', 1, Len(messages)) = messages]_vars

\* C19 witness: the ai record was refused after the user record was stored;
\* chat has returned the apology and the user record is in the store
C19_Witness ==
  \E c \in Calls :
    /\ AppendFailed(c)
    /\ calls[c].appended = 1
    /\ messages = <<userMessage(calls[c].arg)>>
    /\ calls[c].result.metadata.fallback = TRUE

\* the methods whose paths this repository's engine has no route for
UnservedOps ==
  {"suggestTaskBreakdown", "estimateEffort", "indexDocument", "searchDocuments",
   "transcribeAudio"}

\* the value a method without a served path gives back when its request fails
FailureValueOf(op, arg) ==
  CASE op = "suggestTaskBreakdown" -> suggestTaskBreakdownCatch(arg).result
    [] op = "estimateEffort" -> estimateEffortCatch(arg).result
    [] op = "indexDocument" -> indexDocumentCatch(arg).result
    [] op = "searchDocuments" -> searchDocumentsCatch(arg).result

====
